---- MODULE Spec2Model ----
(***************************************************************************)
(* A model of make_ld_matrix.py: one run of make_ld_matrix(args), from the *)
(* argument check to the two exports, with the files it reads and writes.  *)
(*                                                                         *)
(* Encoding.  A file row holds text: a variant is <<CHR, BP>> with CHR the  *)
(* token as written ("1", "X") and a pairwise row is                       *)
(* [a |-> <<CHR_A, BP_A>>, b |-> <<CHR_B, BP_B>>, r2 |-> R2], with R2 in   *)
(* hundredths (50 stands for 0.5), so the diagonal literal 1.0 is 100.     *)
(* pd.read_csv gives each CHR column of a frame one dtype, so a key of a   *)
(* frame is <<dtype, CHR, BP>>: <<"int", "1", 100>> is (1, 100) and        *)
(* <<"str", "1", 100>> is ('1', 100), which python does not take for equal.*)
(* Row positions are 0-based as in the code (sequence position minus one). *)
(***************************************************************************)
EXTENDS Integers, Sequences, FiniteSets

VARIABLES
    args,           \* [savemat, saveltm : BOOLEAN, ldfile : STRING, chunksize : Nat]
    reffile,        \* rows of the file args.ref
    ldtable,        \* rows of the user's --ldfile, or what plink computes on success
    tmpld,          \* the file 'tmp.ld.gz' of the working directory
    tool,           \* what became of the external command
    pc,             \* position in make_ld_matrix
    error,          \* "" or the uncaught exception
    io,             \* the file and process operations performed so far
    nsnp,           \* ref.shape[0]
    chrpos_to_id,   \* the dict built at line 43
    reader,         \* the chunk iterator of line 52
    i,              \* the enumerate() index of the next chunk
    finished,       \* the first number printed at line 65
    total_df,       \* [none |-> total_df is None, rows |-> its rows]
    dropped,        \* the number printed at line 71
    ltmfile,        \* the file args.saveltm
    matfile         \* the file args.savemat

vars == <<args, reffile, ldtable, tmpld, tool, pc, error, io, nsnp,
          chrpos_to_id, reader, i, finished, total_df, dropped, ltmfile, matfile>>

----------------------------------------------------------------------------
(* Bounds of the checked inputs. *)

\* longest reference table of the exhaustive inputs
MaxRef == 2
\* longest pairwise table of the exhaustive inputs
MaxRec == 3
\* largest --chunksize
MaxChunk == 4

\* python's None as the result of dict.get(key, None); row positions are >= 0
None == -1

\* the literal 1.0 written on the diagonal, in hundredths
One == 100

SeqsUpTo(S, n) == UNION { [1..k -> S] : k \in 0..n }

Rec(ka, kb, v) == [a |-> ka, b |-> kb, r2 |-> v]

\* keys of the exhaustive inputs: two positions of chromosome 1, one of chromosome X
KeysSmall == { <<"1", 100>>, <<"1", 200>>, <<"X", 100>> }

\* records of the exhaustive inputs: a pair reported twice with two values, the
\* mirrored pair, a self-pair, and two pairs with chromosome X at either end
RecordPool ==
    { Rec(<<"1", 100>>, <<"1", 200>>, 50), Rec(<<"1", 100>>, <<"1", 200>>, 99),
      Rec(<<"1", 200>>, <<"1", 100>>, 20), Rec(<<"1", 100>>, <<"1", 100>>, 90),
      Rec(<<"1", 100>>, <<"X", 100>>, 90), Rec(<<"X", 100>>, <<"1", 200>>, 20) }

\* the round-trip scenario: four variants, three pairs and a late duplicate
RoundTripRef == << <<"1", 100>>, <<"1", 200>>, <<"1", 300>>, <<"1", 400>> >>

RoundTripRecs ==
    << Rec(<<"1", 100>>, <<"1", 200>>, 50), Rec(<<"1", 100>>, <<"1", 300>>, 90),
       Rec(<<"1", 200>>, <<"1", 300>>, 20), Rec(<<"1", 100>>, <<"1", 200>>, 99) >>

RefTables == SeqsUpTo(KeysSmall, MaxRef) \cup { RoundTripRef }

LdTables == SeqsUpTo(RecordPool, MaxRec)

\* what an earlier run may have left as 'tmp.ld.gz': nothing, a header-only
\* table, or a table with records
StaleFiles ==
    { [exists |-> FALSE, rows |-> << >>],
      [exists |-> TRUE, rows |-> << >>],
      [exists |-> TRUE, rows |-> << Rec(<<"1", 100>>, <<"1", 200>>, 99) >>] }

ChunkSizes == 1..MaxChunk

NoFile == [exists |-> FALSE, lines |-> << >>]

NoMat == [exists |-> FALSE, id1 |-> << >>, id2 |-> << >>, val |-> << >>, nsnp |-> 0]

NoReader == [open |-> FALSE, all |-> << >>, pos |-> 0, emptyfirst |-> FALSE]

----------------------------------------------------------------------------
(* The state before make_ld_matrix(args) is called. *)

InitRun ==
    /\ tool = "not_run"
    /\ pc = "start"
    /\ error = ""
    /\ io = {}
    /\ nsnp = 0
    /\ chrpos_to_id = << >>
    /\ reader = NoReader
    /\ i = 0
    /\ finished = 0
    /\ total_df = [none |-> TRUE, rows |-> << >>]
    /\ dropped = 0
    /\ ltmfile = NoFile
    /\ matfile = NoMat

\* --ldfile given: the exhaustive tables, and the round-trip scenario
InitLdfile ==
    /\ \E sm \in BOOLEAN, sl \in BOOLEAN, c \in ChunkSizes :
          args = [savemat |-> sm, saveltm |-> sl, ldfile |-> "user.ld", chunksize |-> c]
    /\ \/ reffile \in RefTables /\ ldtable \in LdTables
       \/ reffile = RoundTripRef /\ ldtable = RoundTripRecs
    /\ tmpld = [exists |-> FALSE, rows |-> << >>]

\* no --ldfile: plink is run; the working directory may hold a stale tmp.ld.gz
InitPlink ==
    /\ \E sm \in BOOLEAN, sl \in BOOLEAN, c \in ChunkSizes :
          args = [savemat |-> sm, saveltm |-> sl, ldfile |-> "None", chunksize |-> c]
    /\ reffile \in { r \in RefTables : Len(r) = 2 } \cup { RoundTripRef }
    /\ ldtable \in { t \in LdTables : Len(t) <= 1 } \cup { RoundTripRecs }
    /\ tmpld \in StaleFiles

Init == InitRun /\ (InitLdfile \/ InitPlink)

----------------------------------------------------------------------------
(* The pure steps of the code, computed as the code computes them. *)

\* lines 41 and 52: the CHR tokens pd.read_csv parses as integers
NumericTokens == { "1", "2" }

\* lines 41 and 52: the dtype pd.read_csv infers for the CHR column of one frame:
\* int64 when every token of the frame is a number, else object (strings)
Dtype(tokens) ==
    IF \A k \in DOMAIN tokens : tokens[k] \in NumericTokens THEN "int" ELSE "str"

Key(dtype, cell) == <<dtype, cell[1], cell[2]>>

\* line 41: ref = pd.read_csv(args.ref, ...), the whole table as one frame
ReadRefCsv(rows) ==
    LET d == Dtype([ k \in 1..Len(rows) |-> rows[k][1] ])
    IN  [ k \in 1..Len(rows) |-> Key(d, rows[k]) ]

\* line 52/56: the frame of one batch; CHR_A and CHR_B are typed separately, from
\* the rows of this batch alone
ReadLdCsv(rows) ==
    LET da == Dtype([ k \in 1..Len(rows) |-> rows[k].a[1] ])
        db == Dtype([ k \in 1..Len(rows) |-> rows[k].b[1] ])
    IN  [ k \in 1..Len(rows) |->
            [a |-> Key(da, rows[k].a), b |-> Key(db, rows[k].b), r2 |-> rows[k].r2] ]

\* mutant of line 36: the two 'not' left out
NoOutputRequestedFlipped(a) == a.savemat /\ a.saveltm

\* line 36: not args.savemat and not args.saveltm
NoOutputRequested(a) == ~a.savemat /\ ~a.saveltm

\* line 43: dict([((chr, pos), index) ...]) over the rows in order; a key that
\* repeats keeps the index of its last row
ChrposToId(ref) ==
    [ k \in { ref[n] : n \in DOMAIN ref } |->
        (CHOOSE n \in DOMAIN ref :
            ref[n] = k /\ \A m \in DOMAIN ref : ref[m] = k => m <= n) - 1 ]

\* mutant of line 44: '>' for '!='
DuplicatedFoundGreater(dict, n) == Cardinality(DOMAIN dict) > n

\* line 44: len(chrpos_to_id) != nsnp
DuplicatedFound(dict, n) == Cardinality(DOMAIN dict) # n

\* lines 57-58: chrpos_to_id.get((chr, pos), None)
Get(dict, key) == IF key \in DOMAIN dict THEN dict[key] ELSE None

Id1Tmp(df, dict) == [ k \in 1..Len(df) |-> Get(dict, df[k].a) ]

Id2Tmp(df, dict) == [ k \in 1..Len(df) |-> Get(dict, df[k].b) ]

\* mutant of line 59: 'i1 and i2', which takes row position 0 for absent
MaskTruthy(id1tmp, id2tmp) ==
    [ k \in 1..Len(id1tmp) |->
        id1tmp[k] # None /\ id1tmp[k] # 0 /\ id2tmp[k] # None /\ id2tmp[k] # 0 ]

\* line 59: i1 is not None and i2 is not None
Mask(id1tmp, id2tmp) ==
    [ k \in 1..Len(id1tmp) |-> id1tmp[k] # None /\ id2tmp[k] # None ]

\* lines 60-62: [value for index, value in enumerate(values) if mask[index] == True]
RECURSIVE Keep(_, _, _)
Keep(values, mask, n) ==
    IF n = 0 THEN << >>
    ELSE IF mask[n] THEN Append(Keep(values, mask, n - 1), values[n])
         ELSE Keep(values, mask, n - 1)

\* line 63: the frame with columns id1, id2, val of one chunk
DfTmp(df, dict) ==
    LET id1tmp == Id1Tmp(df, dict)
        id2tmp == Id2Tmp(df, dict)
        mask == Mask(id1tmp, id2tmp)
        id1 == Keep(id1tmp, mask, Len(df))
        id2 == Keep(id2tmp, mask, Len(df))
        val == Keep([ k \in 1..Len(df) |-> df[k].r2 ], mask, Len(df))
    IN  [ k \in 1..Len(id1) |-> [id1 |-> id1[k], id2 |-> id2[k], val |-> val[k]] ]

\* line 64: df_tmp if total_df is None else total_df.append(df_tmp, ignore_index=True)
Accumulate(total, df_tmp) ==
    [none |-> FALSE, rows |-> IF total.none THEN df_tmp ELSE total.rows \o df_tmp]

\* line 70: drop_duplicates(subset=['id1', 'id2'], keep='first')
RECURSIVE DropFirst(_, _)
DropFirst(rows, n) ==
    IF n = 0 THEN << >>
    ELSE IF \E m \in 1..(n - 1) : rows[m].id1 = rows[n].id1 /\ rows[m].id2 = rows[n].id2
         THEN DropFirst(rows, n - 1)
         ELSE Append(DropFirst(rows, n - 1), rows[n])

\* mutant of line 70: keep='last'
RECURSIVE DropLast(_, _)
DropLast(rows, n) ==
    IF n = 0 THEN << >>
    ELSE IF \E m \in (n + 1)..Len(rows) :
                rows[m].id1 = rows[n].id1 /\ rows[m].id2 = rows[n].id2
         THEN DropLast(rows, n - 1)
         ELSE Append(DropLast(rows, n - 1), rows[n])

DropDuplicatesLast(rows) == DropLast(rows, Len(rows))

DropDuplicates(rows) == DropFirst(rows, Len(rows))

\* line 78: all([(i < j) for (i, j) in zip(id1, id2)])
AllLower(rows) == \A k \in 1..Len(rows) : rows[k].id1 < rows[k].id2

\* line 79: csr_matrix((val, (id2, id1)), shape=(nsnp, nsnp)) at [r, c]; scipy sums
\* the values of entries given for the same cell
RECURSIVE CsrSum(_, _, _, _)
CsrSum(rows, r, c, n) ==
    IF n = 0 THEN 0
    ELSE CsrSum(rows, r, c, n - 1)
         + (IF rows[n].id2 = r /\ rows[n].id1 = c THEN rows[n].val ELSE 0)

\* mutant of line 79: (id1, id2) for (id2, id1)
CsrUntransposed(rows, r, c) == CsrSum(rows, c, r, Len(rows))

Csr(rows, r, c) == CsrSum(rows, r, c, Len(rows))

\* lines 82-86: '1.0', then for i in range(1, nsnp) the cells [i, 0:i] and '1.0';
\* a line is the sequence of its tab-separated fields
LtmLines(n, rows) ==
    << <<One>> >> \o
    [ r \in 1..(IF n > 1 THEN n - 1 ELSE 0) |->
        [ c \in 1..r |-> Csr(rows, r, c - 1) ] \o <<One>> ]

\* mutant of line 93: the indices left 0-based
MatFieldsZeroBased(rows, n) ==
    [ exists |-> TRUE,
      id1 |-> [ k \in 1..Len(rows) |-> rows[k].id1 ],
      id2 |-> [ k \in 1..Len(rows) |-> rows[k].id2 ],
      val |-> [ k \in 1..Len(rows) |-> rows[k].val ],
      nsnp |-> n ]

\* line 93: the four fields handed to savemat
MatFields(rows, n) ==
    [ exists |-> TRUE,
      id1 |-> [ k \in 1..Len(rows) |-> rows[k].id1 + 1 ],
      id2 |-> [ k \in 1..Len(rows) |-> rows[k].id2 + 1 ],
      val |-> [ k \in 1..Len(rows) |-> rows[k].val ],
      nsnp |-> n ]

\* line 52/56: the reader has a batch left: rows not yet delivered, or the one
\* empty batch some pandas versions deliver for a table without rows
HasNext(rd) == rd.pos < Len(rd.all) \/ rd.emptyfirst

Min(x, y) == IF x <= y THEN x ELSE y

\* line 56: the next batch is the frame parsed from the next chunksize rows, fewer
\* at the end
NextChunk(rd, c) == ReadLdCsv(SubSeq(rd.all, rd.pos + 1, Min(rd.pos + c, Len(rd.all))))

----------------------------------------------------------------------------
(* The steps of make_ld_matrix, one action per step between two file or   *)
(* process operations.  An uncaught exception ends the run at "failed".   *)

Raise(e) == pc' = "failed" /\ error' = e

\* lines 36-37
CheckOutputs ==
    /\ pc = "start"
    /\ IF NoOutputRequested(args)
       THEN Raise("ValueError: No output requested")
       ELSE pc' = "read_ref" /\ error' = error
    /\ UNCHANGED <<args, reffile, ldtable, tmpld, tool, io, nsnp, chrpos_to_id,
                   reader, i, finished, total_df, dropped, ltmfile, matfile>>

\* lines 41-44
ReadRef ==
    /\ pc = "read_ref"
    /\ io' = io \cup {"read_ref"}
    /\ nsnp' = Len(reffile)
    /\ chrpos_to_id' = ChrposToId(ReadRefCsv(reffile))
    /\ IF DuplicatedFound(chrpos_to_id', nsnp')
       THEN Raise("ValueError: Duplicated CHR:POS")
       ELSE pc' = "ld" /\ error' = error
    /\ UNCHANGED <<args, reffile, ldtable, tmpld, tool, reader, i, finished,
                   total_df, dropped, ltmfile, matfile>>

\* lines 46-49 with execute_command (lines 15-18): the command's exit status is not
\* looked at.  The command writes tmp.ld.gz ("ok"), or exits without writing it
\* ("failed"), or cannot be started, and Popen raises ("not_found").  Line 18
\* decodes what the command printed as UTF-8: when that is not UTF-8 the decode
\* raises UnicodeDecodeError after the command ran, and line 49 is not reached.
ExecutePlink ==
    /\ pc = "ld"
    /\ args.ldfile = "None"
    /\ io' = io \cup {"run_plink"}
    /\ \E outcome \in {"ok", "failed", "not_found"}, utf8 \in BOOLEAN :
          /\ tool' = outcome
          /\ tmpld' = IF outcome = "ok" THEN [exists |-> TRUE, rows |-> ldtable] ELSE tmpld
          /\ IF outcome = "not_found"
             THEN Raise("FileNotFoundError: plink") /\ args' = args
             ELSE IF ~utf8
             THEN Raise("UnicodeDecodeError") /\ args' = args
             ELSE /\ pc' = "open"
                  /\ error' = error
                  /\ args' = [args EXCEPT !.ldfile = "tmp.ld.gz"]
    /\ UNCHANGED <<reffile, ldtable, nsnp, chrpos_to_id, reader, i, finished,
                   total_df, dropped, ltmfile, matfile>>

\* line 46 when --ldfile is given: nothing is run
SkipPlink ==
    /\ pc = "ld"
    /\ args.ldfile # "None"
    /\ pc' = "open"
    /\ UNCHANGED <<args, reffile, ldtable, tmpld, tool, error, io, nsnp, chrpos_to_id,
                   reader, i, finished, total_df, dropped, ltmfile, matfile>>

\* the file args.ldfile names
LdFile == IF args.ldfile = "tmp.ld.gz" THEN tmpld ELSE [exists |-> TRUE, rows |-> ldtable]

\* lines 52-55: pd.read_csv(args.ldfile, chunksize=...) opens the file.  For a table
\* without rows the iterator yields one empty batch or none, by pandas version.
OpenReader ==
    /\ pc = "open"
    /\ IF ~LdFile.exists
       THEN /\ Raise("FileNotFoundError: ldfile")
            /\ UNCHANGED <<io, reader, total_df>>
       ELSE /\ io' = io \cup {"open_ld"}
            /\ \E ef \in (IF LdFile.rows = << >> THEN BOOLEAN ELSE {FALSE}) :
                  reader' = [open |-> TRUE, all |-> LdFile.rows, pos |-> 0, emptyfirst |-> ef]
            /\ total_df' = [none |-> TRUE, rows |-> << >>]
            /\ pc' = "loop"
            /\ error' = error
    /\ UNCHANGED <<args, reffile, ldtable, tmpld, tool, nsnp, chrpos_to_id, i,
                   finished, dropped, ltmfile, matfile>>

\* lines 56-65: one pass of the loop body
ProcessChunk ==
    /\ pc = "loop"
    /\ HasNext(reader)
    /\ LET df == NextChunk(reader, args.chunksize)
           df_tmp == DfTmp(df, chrpos_to_id)
       IN  /\ total_df' = Accumulate(total_df, df_tmp)
           /\ finished' = i * args.chunksize + Len(df)
           /\ reader' = [reader EXCEPT !.pos = @ + Len(df), !.emptyfirst = FALSE]
    /\ i' = i + 1
    /\ UNCHANGED <<args, reffile, ldtable, tmpld, tool, pc, error, io, nsnp,
                   chrpos_to_id, dropped, ltmfile, matfile>>

\* lines 66-71: the loop is over; total_df.shape of None raises AttributeError
DropDuplicated ==
    /\ pc = "loop"
    /\ ~HasNext(reader)
    /\ IF total_df.none
       THEN Raise("AttributeError: NoneType") /\ UNCHANGED <<total_df, dropped>>
       ELSE LET old_size == Len(total_df.rows)
            IN  /\ total_df' = [total_df EXCEPT !.rows = DropDuplicates(@)]
                /\ dropped' = old_size - Len(total_df'.rows)
                /\ pc' = "ltm"
                /\ error' = error
    /\ UNCHANGED <<args, reffile, ldtable, tmpld, tool, io, nsnp, chrpos_to_id,
                   reader, i, finished, ltmfile, matfile>>

\* lines 74-86: the assert comes before open(args.saveltm, 'w')
SaveLtm ==
    /\ pc = "ltm"
    /\ IF ~args.saveltm
       THEN pc' = "mat" /\ UNCHANGED <<error, io, ltmfile>>
       ELSE IF ~AllLower(total_df.rows)
       THEN Raise("AssertionError") /\ UNCHANGED <<io, ltmfile>>
       ELSE /\ ltmfile' = [exists |-> TRUE, lines |-> LtmLines(nsnp, total_df.rows)]
            /\ io' = io \cup {"write_ltm"}
            /\ pc' = "mat"
            /\ error' = error
    /\ UNCHANGED <<args, reffile, ldtable, tmpld, tool, nsnp, chrpos_to_id, reader,
                   i, finished, total_df, dropped, matfile>>

\* lines 89-103
SaveMat ==
    /\ pc = "mat"
    /\ IF args.savemat
       THEN /\ matfile' = MatFields(total_df.rows, nsnp)
            /\ io' = io \cup {"write_mat"}
       ELSE UNCHANGED <<io, matfile>>
    /\ pc' = "done"
    /\ UNCHANGED <<args, reffile, ldtable, tmpld, tool, error, nsnp, chrpos_to_id,
                   reader, i, finished, total_df, dropped, ltmfile>>

Next ==
    \/ CheckOutputs
    \/ ReadRef
    \/ ExecutePlink
    \/ SkipPlink
    \/ OpenReader
    \/ ProcessChunk
    \/ DropDuplicated
    \/ SaveLtm
    \/ SaveMat

Spec == Init /\ [][Next]_vars

----------------------------------------------------------------------------
(* What the properties speak of, stated on the input files and on the    *)
(* records and reference rows as read from them.                          *)

\* the records of the first pos rows of a table as a reader with chunk size c
\* delivers them (pos is the end of a batch)
RECURSIVE Delivered(_, _, _)
Delivered(all, c, pos) ==
    IF pos = 0 THEN << >>
    ELSE LET start == ((pos - 1) \div c) * c
         IN  Delivered(all, c, start) \o ReadLdCsv(SubSeq(all, start + 1, pos))

\* the pairwise records the run reads, in stream order
Stream == Delivered(reader.all, args.chunksize, Len(reader.all))

\* the rows of the reference as read
Reference == ReadRefCsv(reffile)

Distinct(ref) == \A m, n \in DOMAIN ref : ref[m] = ref[n] => m = n

Present(ref, k) == \E n \in DOMAIN ref : ref[n] = k

\* the 0-based row position of key k in a reference ref without repeated keys
RowOf(ref, k) == (CHOOSE n \in DOMAIN ref : ref[n] = k) - 1

Resolved(ref, rec) == Present(ref, rec.a) /\ Present(ref, rec.b)

TripletOf(ref, rec) == [id1 |-> RowOf(ref, rec.a), id2 |-> RowOf(ref, rec.b), val |-> rec.r2]

\* the triplets of the first n records, taken one record at a time
RECURSIVE ResolveEach(_, _, _)
ResolveEach(ref, recs, n) ==
    IF n = 0 THEN << >>
    ELSE IF Resolved(ref, recs[n])
         THEN Append(ResolveEach(ref, recs, n - 1), TripletOf(ref, recs[n]))
         ELSE ResolveEach(ref, recs, n - 1)

SamePair(s, t) == s.id1 = t.id1 /\ s.id2 = t.id2

\* the duplicates have been dropped (the run may since have failed the assert)
AfterDedup ==
    \/ pc \in {"ltm", "mat", "done"}
    \/ pc = "failed" /\ error = "AssertionError"

NoOutputFile == ~ltmfile.exists /\ ~matfile.exists

----------------------------------------------------------------------------
\* C1: chunk-size invariance.  Whatever the chunk size, the deduplicated collection
\* is the one a single batch holding the whole table gives (a chunk size larger
\* than the input), and the one chunk size 1 gives: same triplets, same order.
C1_ChunkSizeInvariance ==
    AfterDedup =>
        /\ total_df.rows = DropDuplicates(DfTmp(ReadLdCsv(reader.all), chrpos_to_id))
        /\ total_df.rows =
              DropDuplicates(ResolveEach(Reference,
                                         Delivered(reader.all, 1, Len(reader.all)),
                                         Len(reader.all)))

\* the part of C1 the code keeps: the same for a table whose CHR_A and CHR_B
\* tokens are all numbers, so that every batch is typed alike
ChunkSizeInvariantForNumericChr ==
    ( /\ AfterDedup
      /\ \A n \in 1..Len(reader.all) :
            reader.all[n].a[1] \in NumericTokens /\ reader.all[n].b[1] \in NumericTokens )
    => C1_ChunkSizeInvariance

\* C2: first-seen-wins deduplication.  After the deduplication no two triplets
\* share (id1, id2); every pair of a resolved record is kept with the value of
\* the earliest record of that pair in the stream; the reported number of
\* dropped entries is the size before minus the size after.
C2_FirstSeenWins ==
    AfterDedup =>
      LET st == Stream
          ref == Reference
      IN
        /\ \A k, l \in 1..Len(total_df.rows) :
              SamePair(total_df.rows[k], total_df.rows[l]) => k = l
        /\ \A n \in 1..Len(st) :
              Resolved(ref, st[n]) =>
                LET first == CHOOSE m \in 1..n :
                        /\ Resolved(ref, st[m])
                        /\ SamePair(TripletOf(ref, st[m]), TripletOf(ref, st[n]))
                        /\ \A q \in 1..(m - 1) :
                              ~(Resolved(ref, st[q])
                                /\ SamePair(TripletOf(ref, st[q]), TripletOf(ref, st[n])))
                IN  \E k \in 1..Len(total_df.rows) :
                        total_df.rows[k] = TripletOf(ref, st[first])
        /\ dropped = Cardinality({ n \in 1..Len(st) : Resolved(ref, st[n]) })
                        - Len(total_df.rows)

\* the same pair twice with two values, in two different chunks
C2_Witness ==
    /\ AfterDedup
    /\ dropped >= 1
    /\ \E m, n \in 1..Len(Stream) :
          /\ m < n
          /\ Resolved(Reference, Stream[m])
          /\ Stream[m].a = Stream[n].a /\ Stream[m].b = Stream[n].b
          /\ Stream[m].r2 # Stream[n].r2
          /\ (m - 1) \div args.chunksize # (n - 1) \div args.chunksize

\* C3: index resolution and filtering.  After each chunk the accumulated
\* collection holds, in input order, exactly one triplet (index_A, index_B, R2)
\* per record read so far that has both endpoints in the reference and none for
\* the others; no error is raised; the printed count of records read is the
\* number read, and it exceeds the collection size by the number discarded.
C3_ResolveAndFilter ==
    (pc = "loop" /\ i >= 1) =>
      LET st == Stream
          ref == Reference
      IN
        /\ error = ""
        /\ ~total_df.none
        /\ total_df.rows = ResolveEach(ref, st, reader.pos)
        /\ finished = reader.pos
        /\ finished - Len(total_df.rows)
             = Cardinality({ n \in 1..reader.pos : ~Resolved(ref, st[n]) })

C3_Witness ==
    /\ pc = "loop"
    /\ i >= 2
    /\ Len(total_df.rows) >= 2
    /\ finished - Len(total_df.rows) >= 1
    /\ \E k \in 1..Len(total_df.rows) : total_df.rows[k].id1 = 0

\* the value the logical matrix holds for row r, column c (c < r): the value of the
\* triplet (c, r) where the collection has one, zero where it has none
CellOf(rows, r, c) ==
    IF \E k \in 1..Len(rows) : rows[k].id1 = c /\ rows[k].id2 = r
    THEN rows[CHOOSE k \in 1..Len(rows) : rows[k].id1 = c /\ rows[k].id2 = r].val
    ELSE 0

\* line 1 is '1.0'; the line of row r has r values, then '1.0'
LtmContent(n) ==
    /\ ltmfile.lines[1] = <<One>>
    /\ \A r \in 1..(n - 1) :
          LET line == ltmfile.lines[r + 1]
          IN  /\ Len(line) = r + 1
              /\ line[r + 1] = One
              /\ \A c \in 0..(r - 1) :
                    /\ line[c + 1] = CellOf(total_df.rows, r, c)
                    /\ \A k, l \in 1..Len(total_df.rows) :
                          ( /\ total_df.rows[k].id1 = c /\ total_df.rows[k].id2 = r
                            /\ total_df.rows[l].id1 = c /\ total_df.rows[l].id2 = r )
                          => k = l

\* C4 as stated: for every reference size N, N = 0 included, the file written for
\* --saveltm has exactly N lines, line 1 is '1.0', and the line of row i holds the
\* i values of the triplets (j, i), zero where there is none, then '1.0'.
C4_LowerTriangularAnyN ==
    ltmfile.exists =>
        /\ Len(ltmfile.lines) = nsnp
        /\ nsnp >= 1 => LtmContent(nsnp)

\* C4 as amended: the same for every reference size N >= 1.
C4_LowerTriangular ==
    (ltmfile.exists /\ nsnp >= 1) =>
        /\ Len(ltmfile.lines) = nsnp
        /\ LtmContent(nsnp)

\* a file of four lines with a stored value and a zero among its cells
C4_Witness ==
    /\ ltmfile.exists
    /\ nsnp = 4
    /\ ltmfile.lines[3] = <<90, 20, One>>
    /\ ltmfile.lines[4] = <<0, 0, 0, One>>
    /\ dropped >= 1

\* C5: sparse export.  The file written for --savemat holds, in the order and the
\* length of the deduplicated collection, id1 = index_A + 1, id2 = index_B + 1 and
\* val, and nsnp = N; for the round-trip scenario id1 = [1,1,2], id2 = [2,3,3],
\* val = [0.5,0.9,0.2], nsnp = 4.
C5_SparseExport ==
    matfile.exists =>
        /\ Len(matfile.id1) = Len(total_df.rows)
        /\ Len(matfile.id2) = Len(total_df.rows)
        /\ Len(matfile.val) = Len(total_df.rows)
        /\ \A k \in 1..Len(total_df.rows) :
              /\ matfile.id1[k] = total_df.rows[k].id1 + 1
              /\ matfile.id2[k] = total_df.rows[k].id2 + 1
              /\ matfile.val[k] = total_df.rows[k].val
        /\ matfile.nsnp = Len(reffile)
        /\ (reffile = RoundTripRef /\ reader.all = RoundTripRecs) =>
              /\ matfile.id1 = <<1, 1, 2>>
              /\ matfile.id2 = <<2, 3, 3>>
              /\ matfile.val = <<50, 90, 20>>
              /\ matfile.nsnp = 4

C5_Witness ==
    /\ matfile.exists
    /\ reffile = RoundTripRef
    /\ reader.all = RoundTripRecs
    /\ args.chunksize = 3
    /\ matfile.id1 = <<1, 1, 2>>

\* a triplet of the deduplicated collection with index_A >= index_B
OrderingViolated ==
    /\ AfterDedup
    /\ \E k \in 1..Len(total_df.rows) : total_df.rows[k].id1 >= total_df.rows[k].id2

\* C6: ordering-assumption check.  Whenever the deduplicated collection holds a
\* triplet with index_A >= index_B, the run aborts with an error and no output
\* file is created, whichever exports are requested.
C6_OrderingCheck ==
    OrderingViolated =>
        /\ pc # "done"
        /\ NoOutputFile
        /\ pc = "failed" => error = "AssertionError"

\* the part of C6 the code keeps: with --saveltm requested, alone or with
\* --savemat, the run aborts on the assert and no file is created
OrderingCheckedForLtm ==
    (OrderingViolated /\ args.saveltm) =>
        /\ pc \in {"ltm", "failed"}
        /\ NoOutputFile
        /\ pc = "failed" => error = "AssertionError"

\* C7: fail-fast on missing outputs.  With neither --savemat nor --saveltm the run
\* raises before any file or process operation: the reference is not read, the
\* tool is not run, the pairwise table is not read, no output is written.
C7_FailFast ==
    (~args.savemat /\ ~args.saveltm) =>
        /\ pc \in {"start", "failed"}
        /\ pc = "failed" => error = "ValueError: No output requested"
        /\ io = {}
        /\ tool = "not_run"
        /\ ~reader.open
        /\ NoOutputFile

C7_Witness ==
    /\ ~args.savemat /\ ~args.saveltm
    /\ pc = "failed"
    /\ error = "ValueError: No output requested"
    /\ args.ldfile = "None"
    /\ tmpld.exists

\* C8: reference index.  Building the index succeeds exactly when the (CHR, BP)
\* pairs of the reference are distinct; then the key of row k looks up to k, for
\* every row, and the index has no other key; when a pair repeats the run fails
\* before the tool is run, before any pairwise record is read and before any
\* output is written.
C8_ReferenceIndex ==
    ("read_ref" \in io) =>
      LET Ref == Reference
      IN
        /\ (error = "ValueError: Duplicated CHR:POS") <=> ~Distinct(reffile)
        /\ Distinct(reffile) =>
              /\ nsnp = Len(reffile)
              /\ DOMAIN chrpos_to_id = { Ref[n] : n \in DOMAIN Ref }
              /\ \A n \in DOMAIN Ref : Get(chrpos_to_id, Ref[n]) = n - 1
              /\ \A k \in DOMAIN chrpos_to_id : Ref[chrpos_to_id[k] + 1] = k
        /\ ~Distinct(reffile) =>
              /\ pc = "failed"
              /\ io = {"read_ref"}
              /\ tool = "not_run"
              /\ ~reader.open
              /\ NoOutputFile

C8_Witness ==
    /\ pc = "failed"
    /\ error = "ValueError: Duplicated CHR:POS"
    /\ Len(reffile) = 2
    /\ args.ldfile = "None"
    /\ tmpld.exists

\* C9: upstream tool failure.  When no --ldfile is given and the external command
\* fails or writes no output file, the run fails with an error, writes no output
\* file and consumes no records, whatever the working directory held before.
C9_ToolFailure ==
    (tool \in {"failed", "not_found"}) =>
        /\ pc # "done"
        /\ ~reader.open
        /\ NoOutputFile

\* the pairwise-record loader was opened and yields no batch at all
ZeroBatches == reader.open /\ reader.all = << >> /\ ~reader.emptyfirst /\ i = 0

\* C10: empty batch sequence.  When the loader yields zero batches the run still
\* completes without error, with an empty deduplicated collection, zero dropped
\* duplicates, and the requested outputs describing a matrix without
\* off-diagonal entries.
C10_EmptyBatchSequence ==
    ZeroBatches =>
        /\ error = ""
        /\ pc # "failed"
        /\ pc = "done" =>
              /\ total_df.rows = << >>
              /\ dropped = 0
              /\ args.savemat =>
                    /\ matfile.exists
                    /\ matfile.id1 = << >> /\ matfile.id2 = << >> /\ matfile.val = << >>
                    /\ matfile.nsnp = Len(reffile)
              /\ args.saveltm =>
                    /\ ltmfile.exists
                    /\ \A r \in 2..Len(ltmfile.lines) :
                          \A c \in 1..(Len(ltmfile.lines[r]) - 1) : ltmfile.lines[r][c] = 0

====
